---------------------------- MODULE Spec2Model ----------------------------
(***************************************************************************)
(* Model of update_tokens.py: the script that rewrites every tokens.go     *)
(* file of a tree (adds the symbol import, turns const ( into var (, wraps *)
(* "govel.*" literals in symbol.For(...)).                                 *)
(*                                                                         *)
(* Text is modelled character by character: a str is a sequence of         *)
(* one-character strings, so splitting, searching and the regular          *)
(* expressions are computed as Python computes them.  Sequences are        *)
(* 1-based: index 0 plays the part of Python's -1 ("not found").           *)
(***************************************************************************)
EXTENDS Integers, Sequences, FiniteSets, TLC

(***************************************************************************)
(* Character classes of Python's re module and of str.strip().             *)
(***************************************************************************)
Upper ==
    {"A", "B", "C", "D", "E", "F", "G", "H", "I", "J", "K", "L", "M",
     "N", "O", "P", "Q", "R", "S", "T", "U", "V", "W", "X", "Y", "Z"}

Lower ==
    {"a", "b", "c", "d", "e", "f", "g", "h", "i", "j", "k", "l", "m",
     "n", "o", "p", "q", "r", "s", "t", "u", "v", "w", "x", "y", "z"}

Digit ==
    {"0", "1", "2", "3", "4", "5", "6", "7", "8", "9"}

\* \s
IsSpace(c) ==
    c \in {" ", "\t", "\n", "\r", "\f"}

\* [A-Z_]
IsTokenChar(c) ==
    c \in Upper \cup {"_"}

\* \w
IsWordChar(c) ==
    c \in Upper \cup Lower \cup Digit \cup {"_"}

(***************************************************************************)
(* str primitives.                                                         *)
(***************************************************************************)
\* s[i:i+len(p)] == p  (i is 1-based)
MatchesAt(s, i, p) ==
    /\ i >= 1
    /\ i + Len(p) - 1 <= Len(s)
    /\ \A k \in 1..Len(p) : s[i + k - 1] = p[k]

\* s.startswith(p)
StartsWith(s, p) ==
    MatchesAt(s, 1, p)

\* p in s
Contains(s, p) ==
    \E i \in 1..(Len(s) - Len(p) + 1) : MatchesAt(s, i, p)

\* the least element of a non-empty set of indices
Min(S) ==
    CHOOSE x \in S : \A y \in S : x <= y

\* s.count(p): occurrences of p in s, counted left to right without overlap
RECURSIVE CountFrom(_, _, _)
CountFrom(s, p, i) ==
    LET found == {j \in i..(Len(s) - Len(p) + 1) : MatchesAt(s, j, p)}
    IN  IF found = {} THEN 0
        ELSE 1 + CountFrom(s, p, Min(found) + Len(p))

Count(s, p) ==
    CountFrom(s, p, 1)

\* the first index j >= i with s[j] a newline, Len(s) + 1 when there is none
NextNewline(s, i) ==
    LET found == {j \in i..Len(s) : s[j] = "\n"}
    IN  IF found = {} THEN Len(s) + 1 ELSE Min(found)

\* s[i-1:].split('\n')
RECURSIVE SplitFrom(_, _)
SplitFrom(s, i) ==
    LET j == NextNewline(s, i)
    IN  IF j > Len(s) THEN <<SubSeq(s, i, Len(s))>>
        ELSE <<SubSeq(s, i, j - 1)>> \o SplitFrom(s, j + 1)

\* content.split('\n')
Split(s) ==
    SplitFrom(s, 1)

\* '\n'.join(lines)
RECURSIVE Join(_)
Join(lines) ==
    IF Len(lines) = 0 THEN <<>>
    ELSE IF Len(lines) = 1 THEN lines[1]
    ELSE lines[1] \o <<"\n">> \o Join(Tail(lines))

\* the first index j >= i with s[j] not whitespace (\s* is greedy and what
\* follows it never starts with whitespace, so it takes the whole run)
RECURSIVE SkipSpace(_, _)
SkipSpace(s, i) ==
    IF i <= Len(s) /\ IsSpace(s[i]) THEN SkipSpace(s, i + 1) ELSE i

\* the first index j >= i with s[j] outside [A-Z_]
RECURSIVE SkipToken(_, _)
SkipToken(s, i) ==
    IF i <= Len(s) /\ IsTokenChar(s[i]) THEN SkipToken(s, i + 1) ELSE i

\* the first index j >= i with s[j] a double quote ([^"]+ stops there)
RECURSIVE SkipNonQuote(_, _)
SkipNonQuote(s, i) ==
    IF i <= Len(s) /\ s[i] # "\"" THEN SkipNonQuote(s, i + 1) ELSE i

\* the last index j <= i with s[j] not whitespace, 0 when there is none
RECURSIVE LastNonSpace(_, _)
LastNonSpace(s, i) ==
    IF i >= 1 /\ IsSpace(s[i]) THEN LastNonSpace(s, i - 1) ELSE i

\* s.strip()
Strip(s) ==
    SubSeq(s, SkipSpace(s, 1), LastNonSpace(s, Len(s)))

\* lines.insert(i - 1, x): x becomes element i, the rest moves up
Insert(lines, i, x) ==
    SubSeq(lines, 1, i - 1) \o <<x>> \o SubSeq(lines, i, Len(lines))

(***************************************************************************)
(* The fixed strings of the script.                                        *)
(***************************************************************************)
\* '"govel/packages/support/src/symbol"'
SymbolPath ==
    <<"\"", "g", "o", "v", "e", "l", "/", "p", "a", "c", "k", "a", "g", "e", "s", "/", "s", "u", "p", "p", "o", "r", "t", "/", "s", "r", "c", "/", "s", "y", "m", "b", "o", "l", "\"">>

\* 'import "govel/packages/support/src/symbol"'
SymbolImport ==
    <<"i", "m", "p", "o", "r", "t", " ">> \o SymbolPath

\* 'symbol.For('
SymbolFor ==
    <<"s", "y", "m", "b", "o", "l", ".", "F", "o", "r", "(">>

\* what a raised exception leaves in place of a str: no text holds a
\* character of more than one letter
Raised ==
    <<"ValueError: No package declaration found">>

(***************************************************************************)
(* has_symbol_import                                                       *)
(***************************************************************************)
has_symbol_import(text) ==
    Contains(text, SymbolImport) \/ Contains(text, SymbolPath)

(***************************************************************************)
(* add_symbol_import                                                       *)
(***************************************************************************)
\* for i, line in enumerate(lines): if line.startswith('package '): break
RECURSIVE FindPackage(_, _)
FindPackage(lines, i) ==
    IF i > Len(lines) THEN 0
    ELSE IF StartsWith(lines[i], <<"p", "a", "c", "k", "a", "g", "e", " ">>) THEN i
    ELSE FindPackage(lines, i + 1)

\* for j in range(i + 1, len(lines)): if lines[j].strip() == ')': break
RECURSIVE FindClose(_, _)
FindClose(lines, j) ==
    IF j > Len(lines) THEN 0
    ELSE IF Strip(lines[j]) = <<")">> THEN j
    ELSE FindClose(lines, j + 1)

\* the loop over range(package_line + 1, len(lines)), from line i on
RECURSIVE ScanImports(_, _, _)
ScanImports(lines, i, has_imports) ==
    IF i > Len(lines)
    THEN [has_imports |-> has_imports, import_start |-> 0, import_end |-> 0,
          lines |-> lines]
    ELSE LET line == Strip(lines[i])
         IN  IF line = <<>> THEN ScanImports(lines, i + 1, has_imports)
             ELSE IF StartsWith(line, <<"i", "m", "p", "o", "r", "t">>)
             THEN IF StartsWith(line, <<"i", "m", "p", "o", "r", "t", " ", "(">>)
                  THEN [has_imports |-> TRUE, import_start |-> i,
                        import_end |-> FindClose(lines, i + 1), lines |-> lines]
                  ELSE IF StartsWith(line, <<"i", "m", "p", "o", "r", "t", " ">>)
                  THEN [has_imports |-> TRUE, import_start |-> i,
                        import_end |-> i + 2,
                        lines |-> Insert(Insert([lines EXCEPT ![i] = <<"i", "m", "p", "o", "r", "t", " ", "(">>],
                                                i + 1,
                                                <<"\t">> \o SubSeq(line, 8, Len(line))),
                                         i + 2, <<")">>)]
                  ELSE ScanImports(lines, i + 1, TRUE)
             ELSE [has_imports |-> has_imports, import_start |-> 0,
                   import_end |-> 0, lines |-> lines]

\* the lines after the scan, with the import entry put in
AddToLines(package_line, scan) ==
    IF ~scan.has_imports
    THEN Insert(Insert(Insert(scan.lines, package_line + 1, <<>>),
                       package_line + 2, SymbolImport),
                package_line + 3, <<>>)
    ELSE IF scan.import_start # 0 /\ scan.import_end # 0
    THEN Insert(scan.lines, scan.import_end, <<"\t">> \o SymbolPath)
    ELSE scan.lines

add_symbol_import(text) ==
    LET lines == Split(text)
        package_line == FindPackage(lines, 1)
    IN  IF package_line = 0 THEN Raised
        ELSE Join(AddToLines(package_line,
                             ScanImports(lines, package_line + 1, FALSE)))

(***************************************************************************)
(* convert_const_to_var: re.sub(r'\bconst\s*\(', 'var (', content)         *)
(***************************************************************************)
\* ConstMatchEnd with the \b of the pattern left out
ConstMatchEndNoBoundary(s, i) ==
    IF MatchesAt(s, i, <<"c", "o", "n", "s", "t">>)
    THEN LET j == SkipSpace(s, i + 5)
         IN  IF j <= Len(s) /\ s[j] = "(" THEN j ELSE 0
    ELSE 0

\* the index of the '(' ending a match of \bconst\s*\( that starts at i,
\* 0 when there is no match at i
ConstMatchEnd(s, i) ==
    IF /\ MatchesAt(s, i, <<"c", "o", "n", "s", "t">>)
       /\ (i = 1 \/ ~IsWordChar(s[i - 1]))
    THEN LET j == SkipSpace(s, i + 5)
         IN  IF j <= Len(s) /\ s[j] = "(" THEN j ELSE 0
    ELSE 0

\* re.sub from index i on: the leftmost match is replaced, and the search
\* goes on after it
RECURSIVE SubConst(_, _)
SubConst(s, i) ==
    LET found == {j \in i..Len(s) : ConstMatchEnd(s, j) # 0}
    IN  IF found = {} THEN SubSeq(s, i, Len(s))
        ELSE LET a == Min(found)
             IN  SubSeq(s, i, a - 1) \o <<"v", "a", "r", " ", "(">>
                 \o SubConst(s, ConstMatchEnd(s, a) + 1)

convert_const_to_var(text) ==
    SubConst(text, 1)

(***************************************************************************)
(* convert_string_to_symbol                                                *)
(***************************************************************************)
\* a match of  ([A-Z_]+)\s*=\s*"(govel\.[^"]+)"  whose name starts at a:
\* [name_end, value_start, match_end], match_end = 0 when there is none
TokenMatch(s, a) ==
    LET b == SkipToken(s, a)
        c == SkipSpace(s, b)
        d == SkipSpace(s, c + 1)
        e == SkipNonQuote(s, d + 7)
        ok == /\ b > a
              /\ c <= Len(s) /\ s[c] = "="
              /\ d <= Len(s) /\ s[d] = "\""
              /\ MatchesAt(s, d + 1, <<"g", "o", "v", "e", "l", ".">>)
              /\ e > d + 7
              /\ e <= Len(s)
    IN  [name_end |-> b, value_start |-> d + 1, match_end |-> IF ok THEN e ELSE 0]

\* re.search(r'[A-Z_]+\s*=\s*"govel\.[^"]+"', line)
SearchToken(line) ==
    \E i \in 1..Len(line) : TokenMatch(line, i).match_end # 0

\* replace_func with {indent} left out of the f-string
replace_func_no_indent(indent, token_name, token_value) ==
    token_name \o <<" ", "=", " ">> \o SymbolFor \o <<"\"">> \o token_value \o <<"\"", ")">>

\* replace_func: f'{indent}{token_name} = symbol.For("{token_value}")'
replace_func(indent, token_name, token_value) ==
    indent \o token_name \o <<" ", "=", " ">> \o SymbolFor \o <<"\"">> \o token_value \o <<"\"", ")">>

\* re.sub(pattern, replace_func, line) from index i on, with
\* pattern = (\s*)([A-Z_]+)\s*=\s*"(govel\.[^"]+)": the leftmost match
\* is replaced, and the search goes on after it
RECURSIVE SubToken(_, _)
SubToken(s, i) ==
    LET found == {j \in i..Len(s) : TokenMatch(s, SkipSpace(s, j)).match_end # 0}
    IN  IF found = {} THEN SubSeq(s, i, Len(s))
        ELSE LET start == Min(found)
                 a == SkipSpace(s, start)
                 m == TokenMatch(s, a)
             IN  SubSeq(s, i, start - 1)
                 \o replace_func(SubSeq(s, start, a - 1),
                                 SubSeq(s, a, m.name_end - 1),
                                 SubSeq(s, m.value_start, m.match_end - 1))
                 \o SubToken(s, m.match_end + 1)

\* the loop body: one line of the file
ConvertLine(line) ==
    IF ~Contains(line, SymbolFor) /\ SearchToken(line)
    THEN SubToken(line, 1)
    ELSE line

convert_string_to_symbol(text) ==
    LET lines == Split(text)
    IN  Join([k \in 1..Len(lines) |-> ConvertLine(lines[k])])

(***************************************************************************)
(* The three steps of update_tokens_file on the text it read.              *)
(***************************************************************************)
Transform(text) ==
    LET step1 == IF ~has_symbol_import(text) THEN add_symbol_import(text)
                 ELSE text
    IN  IF step1 = Raised THEN Raised
        ELSE convert_string_to_symbol(convert_const_to_var(step1))

(***************************************************************************)
(* State.                                                                  *)
(***************************************************************************)
VARIABLES
    disk,              \* disk[k]: the text of the k-th tokens.go file found
    pc,                \* where the script is
    run,               \* how many times the script has been started
    i,                 \* the for loop of main: index of file_path in tokens_files
    original_content,  \* update_tokens_file: the text read
    content,           \* update_tokens_file: the text being transformed
    result,            \* what update_tokens_file returned
    updated_count,     \* main: updated_count
    log,               \* what the run printed, in order
    disk_at_start,     \* the tree as it was when the current run started
    clean,             \* no read or write has failed so far
    arg,               \* the argument of a function applied on its own
    res                \* and what it returned

vars ==
    <<disk, pc, run, i, original_content, content, result, updated_count, log,
      disk_at_start, clean, arg, res>>

\* find_tokens_files: the files found, in the order glob returned them
tokens_files ==
    [k \in 1..Len(disk) |-> k]

(***************************************************************************)
(* Bounds.                                                                 *)
(***************************************************************************)
\* lines after the package clause of a generated tokens.go file
MaxLines == 3

\* files in the tree of a batch run
MaxFiles == 2

\* times the script is started on the same tree
MaxRuns == 2

\* lines of a text handed to convert_string_to_symbol
MaxTokenLines == 2

\* pieces of a text handed to convert_const_to_var
MaxPieces == 4

(***************************************************************************)
(* Inputs.                                                                 *)
(***************************************************************************)
\* all sequences of 0..n elements of S
SeqsUpTo(S, n) ==
    UNION {[1..m -> S] : m \in 0..n}

RECURSIVE Concat(_)
Concat(pieces) ==
    IF Len(pieces) = 0 THEN <<>> ELSE pieces[1] \o Concat(Tail(pieces))

\* lines of tokens.go files
FileLines ==
    { <<>>,
      <<"i", "m", "p", "o", "r", "t", " ", "\"", "f", "m", "t", "\"">>,
      <<"i", "m", "p", "o", "r", "t", " ", "(">>,
      <<"i", "m", "p", "o", "r", "t", " ", "(", "\"", "f", "m", "t", "\"", ")">>,
      <<"i", "m", "p", "o", "r", "t", "(">>,
      <<"\t", "\"", "f", "m", "t", "\"">>,
      <<")">>,
      <<"c", "o", "n", "s", "t", " ", "(">>,
      <<"\t", "A", " ", "=", " ", "\"", "g", "o", "v", "e", "l", ".", "a", "\"">>,
      <<"\t", "A", " ", "=", " ", "s", "y", "m", "b", "o", "l", ".", "F", "o", "r", "(", "\"", "g", "o", "v", "e", "l", ".", "a", "\"", ")">>,
      <<"\t">> \o SymbolPath,
      <<"/", "/", " ", "A", " ", "=", " ", "\"", "g", "o", "v", "e", "l", ".", "a", "\"", "g", "o", "v", "e", "l", "/", "p", "a", "c", "k", "a", "g", "e", "s", "/", "s", "u", "p", "p", "o", "r", "t", "/", "s", "r", "c", "/", "s", "y", "m", "b", "o", "l", "\"">> }

\* a tokens.go file: with or without its package clause, then up to
\* MaxLines lines
FileTexts ==
    { Join(hdr \o body) : hdr \in {<<>>, <<<<"p", "a", "c", "k", "a", "g", "e", " ", "p">>>>},
                          body \in SeqsUpTo(FileLines, MaxLines) \ {<<>>} }
    \cup {<<"p", "a", "c", "k", "a", "g", "e", " ", "p">>, <<>>}

\* whole files of a batch: to convert, converted, without a package clause,
\* with a single import
BatchTexts ==
    { <<"p", "a", "c", "k", "a", "g", "e", " ", "p", "\n", "\n", "c", "o", "n", "s", "t", " ", "(", "\n", "\t", "A", " ", "=", " ", "\"", "g", "o", "v", "e", "l", ".", "a", "\"", "\n", ")", "\n">>,
      <<"p", "a", "c", "k", "a", "g", "e", " ", "p", "\n", "\n", "i", "m", "p", "o", "r", "t", " ", "\"", "g", "o", "v", "e", "l", "/", "p", "a", "c", "k", "a", "g", "e", "s", "/", "s", "u", "p", "p", "o", "r", "t", "/", "s", "r", "c", "/", "s", "y", "m", "b", "o", "l", "\"", "\n", "\n", "v", "a", "r", " ", "(", "\n", "\t", "A", " ", "=", " ", "s", "y", "m", "b", "o", "l", ".", "F", "o", "r", "(", "\"", "g", "o", "v", "e", "l", ".", "a", "\"", ")", "\n", ")", "\n">>,
      <<"c", "o", "n", "s", "t", " ", "(", "\n", "\t", "A", " ", "=", " ", "\"", "g", "o", "v", "e", "l", ".", "a", "\"", "\n", ")", "\n">>,
      <<"p", "a", "c", "k", "a", "g", "e", " ", "p", "\n", "\n", "i", "m", "p", "o", "r", "t", " ", "\"", "f", "m", "t", "\"", "\n">> }

\* lines handed to convert_string_to_symbol: what precedes the name, the
\* name, the assignment, the value, what follows
TokenLines ==
    { pre \o <<"A", "_", "B">> \o eq \o val :
        pre \in {<<>>, <<"\t">>, <<"f", "o", "o">>, <<"/", "/", " ">>},
        eq  \in {<<" ", "=", " ">>, <<"=">>},
        val \in {<<"\"", "g", "o", "v", "e", "l", ".", "a", "\"">>, <<"\"", "a", "p", "p", ".", "a", "\"">>, <<"s", "y", "m", "b", "o", "l", ".", "F", "o", "r", "(", "\"", "g", "o", "v", "e", "l", ".", "a", "\"", ")">>} }
    \cup { <<>>,
           <<")">>,
           <<"A", " ", "=", " ", "\"", "g", "o", "v", "e", "l", ".", "\"">>,
           <<" ", " ", "A", "\t", "=", " ", " ", "\"", "g", "o", "v", "e", "l", ".", "a", "\"", " ", "/", "/", " ", "c">>,
           <<"A", " ", "=", " ", "\"", "g", "o", "v", "e", "l", ".", "a", "\"", ";", " ", "B", " ", "=", " ", "\"", "g", "o", "v", "e", "l", ".", "b", "\"">>,
           <<"A", "b", " ", "=", " ", "\"", "g", "o", "v", "e", "l", ".", "a", "\"", " ", "+", " ", "s", "y", "m", "b", "o", "l", ".", "F", "o", "r", "(", "x", ")">> }

TokenTexts ==
    { Join(ls) : ls \in SeqsUpTo(TokenLines, MaxTokenLines) \ {<<>>} }

\* pieces of the texts handed to convert_const_to_var
ConstPieces ==
    { <<"c", "o", "n", "s", "t">>, <<"(">>, <<" ">>, <<"\n">>, <<"\t">>, <<"x">>, <<".">>, <<"v", "a", "r", " ", "(">> }

ConstTexts ==
    { Concat(ps) : ps \in SeqsUpTo(ConstPieces, MaxPieces) }

(***************************************************************************)
(* Initial states.                                                         *)
(***************************************************************************)
InitRun(texts, lo, hi) ==
    /\ disk \in UNION {[1..n -> texts] : n \in lo..hi}
    /\ disk_at_start = disk
    /\ pc = "main"
    /\ run = 1
    /\ i = 0
    /\ original_content = <<>>
    /\ content = <<>>
    /\ result = FALSE
    /\ updated_count = 0
    /\ log = <<>>
    /\ clean = TRUE
    /\ arg = <<>>
    /\ res = <<>>

\* the script on a tree with one tokens.go file
Init ==
    InitRun(FileTexts, 1, 1)

\* the script on a tree with 0..MaxFiles tokens.go files
InitBatch ==
    InitRun(BatchTexts, 0, MaxFiles)

InitCall(texts) ==
    /\ arg \in texts
    /\ res = <<>>
    /\ pc = "call"
    /\ disk = <<>>
    /\ disk_at_start = <<>>
    /\ run = 1
    /\ i = 0
    /\ original_content = <<>>
    /\ content = <<>>
    /\ result = FALSE
    /\ updated_count = 0
    /\ log = <<>>
    /\ clean = TRUE

InitImport ==
    InitCall(FileTexts)

InitConst ==
    InitCall(ConstTexts)

InitToken ==
    InitCall(TokenTexts)

(***************************************************************************)
(* main                                                                    *)
(***************************************************************************)
\* main, up to the loop: tokens_files = find_tokens_files(root_dir)
Main ==
    /\ pc = "main"
    /\ IF Len(tokens_files) = 0
       THEN /\ log' = Append(log, <<"No tokens.go files found!">>)
            /\ pc' = "done"
            /\ UNCHANGED <<i, updated_count>>
       ELSE /\ log' = Append(log, <<"Found", Len(tokens_files)>>)
            /\ updated_count' = 0
            /\ i' = 1
            /\ pc' = "loop"
    /\ UNCHANGED <<disk, run, original_content, content, result, disk_at_start,
                   clean, arg, res>>

\* for file_path in tokens_files: print(f"Processing: {file_path}")
Process ==
    /\ pc = "loop"
    /\ log' = Append(log, <<"Processing", tokens_files[i]>>)
    /\ pc' = "read"
    /\ UNCHANGED <<disk, run, i, original_content, content, result,
                   updated_count, disk_at_start, clean, arg, res>>

\* update_tokens_file: open(file_path, 'r'), f.read(), content = original_content
Read ==
    /\ pc = "read"
    /\ original_content' = disk[i]
    /\ content' = disk[i]
    /\ pc' = "transform"
    /\ UNCHANGED <<disk, run, i, result, updated_count, log, disk_at_start,
                   clean, arg, res>>

\* the open or the read raises (OSError, UnicodeDecodeError)
ReadFails ==
    /\ pc = "read"
    /\ clean' = FALSE
    /\ pc' = "except"
    /\ UNCHANGED <<disk, run, i, original_content, content, result,
                   updated_count, log, disk_at_start, arg, res>>

\* what a failed write of text leaves on disk: none of it, or its first half
PartsWritten(text) ==
    {SubSeq(text, 1, n) : n \in {0, Len(text) \div 2}}

\* steps 1 to 3, in memory; add_symbol_import may raise
TransformText ==
    /\ pc = "transform"
    /\ LET new == Transform(content)
       IN  IF new = Raised
           THEN /\ pc' = "except"
                /\ UNCHANGED content
           ELSE /\ content' = new
                /\ pc' = "compare"
    /\ UNCHANGED <<disk, run, i, original_content, result, updated_count, log,
                   disk_at_start, clean, arg, res>>

\* Compare with the test left out: the file is written in any case
CompareAlwaysWrites ==
    /\ pc = "compare"
    /\ pc' = "open"
    /\ UNCHANGED <<disk, run, i, original_content, content, result,
                   updated_count, log, disk_at_start, clean, arg, res>>

\* if content != original_content: ... else: return False
Compare ==
    /\ pc = "compare"
    /\ IF content # original_content
       THEN /\ pc' = "open"
            /\ UNCHANGED result
       ELSE /\ result' = FALSE
            /\ pc' = "return"
    /\ UNCHANGED <<disk, run, i, original_content, content, updated_count, log,
                   disk_at_start, clean, arg, res>>

\* open(file_path, 'w') truncates the file
OpenForWrite ==
    /\ pc = "open"
    /\ disk' = [disk EXCEPT ![i] = <<>>]
    /\ pc' = "write"
    /\ UNCHANGED <<run, i, original_content, content, result, updated_count,
                   log, disk_at_start, clean, arg, res>>

\* open(file_path, 'w') raises: the file is as it was
OpenFails ==
    /\ pc = "open"
    /\ clean' = FALSE
    /\ pc' = "except"
    /\ UNCHANGED <<disk, run, i, original_content, content, result,
                   updated_count, log, disk_at_start, arg, res>>

\* f.write(content) and the close of the with block; return True
Write ==
    /\ pc = "write"
    /\ disk' = [disk EXCEPT ![i] = content]
    /\ result' = TRUE
    /\ pc' = "return"
    /\ UNCHANGED <<run, i, original_content, content, updated_count, log,
                   disk_at_start, clean, arg, res>>

\* the write or the close raises: a part of the text, or none, is on disk
WriteFails ==
    /\ pc = "write"
    /\ \E part \in PartsWritten(content) :
           disk' = [disk EXCEPT ![i] = part]
    /\ clean' = FALSE
    /\ pc' = "except"
    /\ UNCHANGED <<run, i, original_content, content, result, updated_count,
                   log, disk_at_start, arg, res>>

\* Except without the handler: the exception leaves main
ExceptAborts ==
    /\ pc = "except"
    /\ pc' = "aborted"
    /\ UNCHANGED <<disk, run, i, original_content, content, result,
                   updated_count, log, disk_at_start, clean, arg, res>>

\* except Exception as e: print(f"Error processing ..."); return False
Except ==
    /\ pc = "except"
    /\ log' = Append(log, <<"Error processing", tokens_files[i]>>)
    /\ result' = FALSE
    /\ pc' = "return"
    /\ UNCHANGED <<disk, run, i, original_content, content, updated_count,
                   disk_at_start, clean, arg, res>>

\* main: if update_tokens_file(file_path): ... else: ...; then the next file
Report ==
    /\ pc = "return"
    /\ IF result
       THEN /\ log' = Append(log, <<"Updated", tokens_files[i]>>)
            /\ updated_count' = updated_count + 1
       ELSE /\ log' = Append(log, <<"No changes needed", tokens_files[i]>>)
            /\ UNCHANGED updated_count
    /\ i' = i + 1
    /\ pc' = IF i = Len(tokens_files) THEN "summary" ELSE "loop"
    /\ UNCHANGED <<disk, run, original_content, content, result, disk_at_start,
                   clean, arg, res>>

\* print(f"Completed! Updated {updated_count} out of {len(tokens_files)} files.")
Summary ==
    /\ pc = "summary"
    /\ log' = Append(log, <<"Completed", updated_count, Len(tokens_files)>>)
    /\ pc' = "done"
    /\ UNCHANGED <<disk, run, i, original_content, content, result,
                   updated_count, disk_at_start, clean, arg, res>>

\* the script is started again on the tree the last run left
Rerun ==
    /\ pc = "done"
    /\ run < MaxRuns
    /\ run' = run + 1
    /\ disk_at_start' = disk
    /\ log' = <<>>
    /\ pc' = "main"
    /\ UNCHANGED <<disk, i, original_content, content, result, updated_count,
                   clean, arg, res>>

\* a step of one run that prints, branches or touches the disk
IOStep ==
    \/ Main
    \/ Process
    \/ Read
    \/ ReadFails
    \/ Compare
    \/ OpenForWrite
    \/ OpenFails
    \/ Write
    \/ WriteFails
    \/ Except
    \/ Report
    \/ Summary

\* a step of one run of the script
Step ==
    IOStep \/ TransformText

Next ==
    Step \/ Rerun

(***************************************************************************)
(* The functions applied on their own.                                     *)
(***************************************************************************)
Returns(value) ==
    /\ pc = "call"
    /\ res' = value
    /\ pc' = "returned"
    /\ UNCHANGED <<disk, run, i, original_content, content, result,
                   updated_count, log, disk_at_start, clean, arg>>

CallAddSymbolImport ==
    Returns(add_symbol_import(arg))

CallConvertConstToVar ==
    Returns(convert_const_to_var(arg))

CallConvertStringToSymbol ==
    Returns(convert_string_to_symbol(arg))

(***************************************************************************)
(* Specifications.                                                         *)
(***************************************************************************)
\* the script, twice, on a tree with one file
Spec ==
    Init /\ [][Next]_vars

\* the script on a tree with several files; a run goes on until its end:
\* the script is sequential, no step of it waits, and the three in-memory
\* conversions are regular-expression passes over a finite text, which end
SpecBatch ==
    InitBatch /\ [][Next]_vars /\ WF_vars(IOStep) /\ []<>(pc # "transform")

SpecImport ==
    InitImport /\ [][CallAddSymbolImport]_vars

SpecConst ==
    InitConst /\ [][CallConvertConstToVar]_vars

SpecToken ==
    InitToken /\ [][CallConvertStringToSymbol]_vars

(***************************************************************************)
(* Vocabulary of the properties.                                           *)
(***************************************************************************)
\* what the run printed about file k
Printed(line) ==
    \E j \in 1..Len(log) : log[j] = line

\* the status lines of file k, as positions of the log
StatusLines(k) ==
    {j \in 1..Len(log) : log[j] \in {<<"Updated", k>>,
                                      <<"No changes needed", k>>,
                                      <<"Error processing", k>>}}

\* the files the loop has started on, in the order it started on them
RECURSIVE ProcessedFrom(_)
ProcessedFrom(j) ==
    IF j > Len(log) THEN <<>>
    ELSE IF log[j][1] = "Processing" THEN <<log[j][2]>> \o ProcessedFrom(j + 1)
    ELSE ProcessedFrom(j + 1)

\* the end of the longest run of characters of class C that starts at i:
\* the first index from i on that holds no character of the class
RunEnd(s, from, C(_)) ==
    IF from > Len(s) THEN from
    ELSE Min({j \in from..(Len(s) + 1) : j = Len(s) + 1 \/ ~C(s[j])})

\* A line of the form
\*   <leading whitespace><ALL_CAPS_IDENTIFIER><whitespace>=<whitespace>"govel.<rest>"
\* read from its first character: where the identifier, the literal and
\* the closing quote are; ok tells whether the line has the form.
Form(line) ==
    LET a == RunEnd(line, 1, IsSpace)
        b == RunEnd(line, a, IsTokenChar)
        c == RunEnd(line, b, IsSpace)
        d == RunEnd(line, c + 1, IsSpace)
        NotQuote(ch) == ch # "\""
        e == RunEnd(line, d + 1, NotQuote)
        ok == /\ b > a
              /\ c <= Len(line) /\ line[c] = "="
              /\ d <= Len(line) /\ line[d] = "\""
              /\ MatchesAt(line, d + 1, <<"g", "o", "v", "e", "l", ".">>)
              /\ e > d + 7
              /\ e <= Len(line)
    IN  IF ok
        THEN [ok |-> TRUE,
              indent |-> SubSeq(line, 1, a - 1),
              name |-> SubSeq(line, a, b - 1),
              literal |-> SubSeq(line, d, e),
              rest |-> SubSeq(line, e + 1, Len(line))]
        ELSE [ok |-> FALSE, indent |-> <<>>, name |-> <<>>, literal |-> <<>>,
              rest |-> <<>>]

\* the const openers of s: <<a, e>> when  \bconst\s*\(  covers s[a..e]
ConstOpeners(s) ==
    {ae \in (1..Len(s)) \X (1..Len(s)) :
        /\ ae[2] >= ae[1] + 5
        /\ MatchesAt(s, ae[1], <<"c", "o", "n", "s", "t">>)
        /\ (ae[1] = 1 \/ ~IsWordChar(s[ae[1] - 1]))
        /\ s[ae[2]] = "("
        /\ \A k \in (ae[1] + 5)..(ae[2] - 1) : IsSpace(s[k])}

\* by how much the text grows when the openers of S are each replaced by
\* the five characters of 'var ('
RECURSIVE Growth(_)
Growth(S) ==
    IF S = {} THEN 0
    ELSE LET ae == CHOOSE x \in S : TRUE
         IN  5 - (ae[2] - ae[1] + 1) + Growth(S \ {ae})

\* how far the character at index p of s has moved in the result
Shift(s, p) ==
    Growth({ae \in ConstOpeners(s) : ae[2] < p})

(***************************************************************************)
(* C1.                                                                     *)
(***************************************************************************)
\* C1 (as claimed): the transform is idempotent: when no read or write has
\* failed, a second run over the tree the first run left opens no file for
\* writing and counts no update.
C1_SecondRunChangesNothing ==
    (run > 1 /\ clean /\ pc # "main") =>
        (updated_count = 0 /\ pc \notin {"open", "write"})

(***************************************************************************)
(* C2.                                                                     *)
(***************************************************************************)
\* C2 (as claimed): once a file is transformed without error, the text
\* holds the import path exactly once if the text read held none, and as
\* many times as the text read otherwise.
C2_ImportPresentOnce ==
    pc = "compare" =>
        IF Count(original_content, SymbolPath) = 0
        THEN Count(content, SymbolPath) = 1
        ELSE Count(content, SymbolPath) = Count(original_content, SymbolPath)

(***************************************************************************)
(* C3.                                                                     *)
(***************************************************************************)
\* C3 (as claimed): convert_string_to_symbol returns every line that is not
\* of the form <whitespace><ALL_CAPS> = "govel.<rest>", and every line that
\* holds symbol.For( already, byte for byte.
C3_OtherLinesUntouched ==
    pc = "returned" =>
        LET old == Split(arg)
            new == Split(res)
        IN  /\ Len(new) = Len(old)
            /\ \A k \in 1..Len(old) :
                   (~Form(old[k]).ok \/ Contains(old[k], SymbolFor))
                       => new[k] = old[k]

(***************************************************************************)
(* C4.                                                                     *)
(***************************************************************************)
\* what C4 says of line old, rewritten as new
RewrittenAs(old, new) ==
    LET f == Form(old)
        head == f.indent \o f.name \o <<" ", "=", " ", "s", "y", "m", "b", "o", "l", ".", "F", "o", "r", "(">> \o f.literal \o <<")">>
    IN  /\ StartsWith(new, head)
        /\ f.rest = <<>> => new = head

\* C4: convert_string_to_symbol turns every line of the form
\* <whitespace><ALL_CAPS><whitespace>=<whitespace>"govel.<rest>" that does
\* not hold symbol.For( into the same leading whitespace, the same
\* identifier, ' = ' and symbol.For("govel.<rest>") with the literal as it
\* was; the lines are as many as before, in the same order.
C4_EligibleLineRewritten ==
    pc = "returned" =>
        LET old == Split(arg)
            new == Split(res)
        IN  /\ Len(new) = Len(old)
            /\ \A k \in 1..Len(old) :
                   (Form(old[k]).ok /\ ~Contains(old[k], SymbolFor))
                       => RewrittenAs(old[k], new[k])

\* an indented eligible line next to another line has been rewritten
C4_Witness ==
    /\ pc = "returned"
    /\ res # arg
    /\ Len(Split(arg)) > 1
    /\ \E k \in 1..Len(Split(arg)) :
           LET f == Form(Split(arg)[k])
           IN  /\ f.ok
               /\ f.indent # <<>>
               /\ ~Contains(Split(arg)[k], SymbolFor)

(***************************************************************************)
(* C5.                                                                     *)
(***************************************************************************)
\* C5 (as claimed): when update_tokens_file returns after it has read and
\* transformed the file, the file on disk has been written if and only if
\* the transformed text differs from the text read, and True is returned if
\* and only if the file has been written.
C5_WritesIffDifferent ==
    LET old == disk_at_start[i]
        new == Transform(old)
        wrote == disk[i] # old
    IN  (pc = "return" /\ original_content = old /\ content = new) =>
            /\ wrote <=> new # old
            /\ result <=> wrote

\* C5 (amended): update_tokens_file opens the file for writing only when
\* the transformed text differs from the text read; it returns True exactly
\* when that write has been completed, and the file then holds the
\* transformed text; when it returns False without an error, the text needed
\* no change, and the file is as it was read.
C5_WriteOnlyOnDifference ==
    /\ pc \in {"open", "write"} =>
           /\ content # original_content
           /\ original_content = disk_at_start[i]
    /\ pc = "return" =>
           /\ result => (content # original_content /\ disk[i] = content)
           /\ Printed(<<"Error processing", i>>) => ~result
           /\ (~result /\ ~Printed(<<"Error processing", i>>)) =>
                  /\ content = original_content
                  /\ disk[i] = original_content
                  /\ disk[i] = disk_at_start[i]

\* a file has been written and reported, next to one left alone
C5_Witness ==
    /\ pc = "return"
    /\ i = 2
    /\ result
    /\ disk[2] = content
    /\ disk[2] # disk_at_start[2]
    /\ disk[1] = disk_at_start[1]
    /\ Printed(<<"No changes needed", 1>>)
    /\ ~Printed(<<"Error processing", 1>>)

(***************************************************************************)
(* C6.                                                                     *)
(***************************************************************************)
\* the files are taken in the order they were found, each once; a run that
\* has ended has taken them all and has printed its summary last
InOrderOnce ==
    LET done == ProcessedFrom(1)
    IN  /\ Len(done) <= Len(tokens_files)
        /\ \A j \in 1..Len(done) : done[j] = tokens_files[j]
        /\ (pc = "done" /\ Len(tokens_files) > 0) =>
               /\ Len(done) = Len(tokens_files)
               /\ log[Len(log)] = <<"Completed", updated_count, Len(tokens_files)>>

\* C6: a failure to read, transform or write a file is caught for that
\* file: the files after it are still processed, each once and in the order
\* they were found, none is retried, and the run ends, the summary printed,
\* even if every file failed.
C6_FailureIsolation ==
    /\ []InOrderOnce
    /\ (pc # "done") ~> (pc = "done")

\* a run has ended in which every one of several files failed
C6_Witness ==
    /\ pc = "done"
    /\ Len(tokens_files) > 1
    /\ \A k \in 1..Len(tokens_files) : Printed(<<"Error processing", k>>)
    /\ log[Len(log)] = <<"Completed", 0, Len(tokens_files)>>

(***************************************************************************)
(* C7.                                                                     *)
(***************************************************************************)
\* C7 (as claimed): a run that has ended has printed exactly one status
\* line (updated, unchanged or error) for every file, and a file whose
\* processing failed is not reported as unchanged.
C7_OneStatusPerFile ==
    pc = "done" =>
        \A k \in 1..Len(tokens_files) :
            /\ Cardinality(StatusLines(k)) = 1
            /\ Printed(<<"Error processing", k>>)
                   => ~Printed(<<"No changes needed", k>>)

(***************************************************************************)
(* C8.                                                                     *)
(***************************************************************************)
\* C8: convert_const_to_var leaves no const opener, puts 'var (' in the
\* place of every opener of its argument, as many as there were, and keeps
\* every character outside the openers.
C8_ConstOpenersBecomeVar ==
    pc = "returned" =>
        LET openers == ConstOpeners(arg)
            Inside(p) == \E ae \in openers : ae[1] <= p /\ p <= ae[2]
        IN  /\ ConstOpeners(res) = {}
            /\ Len(res) = Len(arg) + Shift(arg, Len(arg) + 1)
            /\ Count(res, <<"v", "a", "r", " ", "(">>) = Count(arg, <<"v", "a", "r", " ", "(">>) + Cardinality(openers)
            /\ \A ae \in openers :
                   MatchesAt(res, ae[1] + Shift(arg, ae[1]), <<"v", "a", "r", " ", "(">>)
            /\ \A p \in 1..Len(arg) :
                   ~Inside(p) => res[p + Shift(arg, p)] = arg[p]

\* an opener that is not at the start of the text and holds whitespace before
\* its parenthesis has been replaced, and the text is shorter for it
C8_Witness ==
    /\ pc = "returned"
    /\ Len(res) < Len(arg)
    /\ \E ae \in ConstOpeners(arg) :
           /\ ae[1] > 1
           /\ ae[2] > ae[1] + 5
           /\ MatchesAt(res, ae[1], <<"v", "a", "r", " ", "(">>)

(***************************************************************************)
(* C9.                                                                     *)
(***************************************************************************)
\* the index of the first line after the package clause that is not
\* blank, 0 when there is none
FirstAfterPackage(lines) ==
    LET p == FindPackage(lines, 1)
        after == {j \in (p + 1)..Len(lines) : Strip(lines[j]) # <<>>}
    IN  IF p = 0 \/ after = {} THEN 0 ELSE Min(after)

\* the first line after the package clause begins an import construct
BeginsImport(text) ==
    LET lines == Split(text)
        s == FirstAfterPackage(lines)
    IN  s # 0 /\ StartsWith(Strip(lines[s]), <<"i", "m", "p", "o", "r", "t">>)

\* line e of new is the entry for the symbol path, inside the import block
\* that line s opens, right before the line that closes the block
EntryInBlock(new, s, e) ==
    /\ new[e] = <<"\t">> \o SymbolPath
    /\ s < e
    /\ e < Len(new)
    /\ Strip(new[e + 1]) = <<")">>
    /\ \A j \in s..(e - 1) : ~Contains(new[j], <<")">>)

\* text with its line e taken out
WithoutLine(lines, e) ==
    SubSeq(lines, 1, e - 1) \o SubSeq(lines, e + 1, Len(lines))

\* C9 (as claimed): when the first non-blank line after the package clause
\* begins an import construct, add_symbol_import puts the entry right
\* before the closing line of that import block (of the block a single
\* import is promoted to, after the original entry), never outside the
\* block, and the other lines are as they were.
C9_EntryInsideImportBlock ==
    (pc = "returned" /\ BeginsImport(arg)) =>
        LET old == Split(arg)
            new == Split(res)
            s == FirstAfterPackage(old)
            line == Strip(old[s])
            grouped == StartsWith(line, <<"i", "m", "p", "o", "r", "t", " ", "(">>)
            promoted == IF grouped THEN old
                        ELSE SubSeq(old, 1, s - 1)
                             \o <<<<"i", "m", "p", "o", "r", "t", " ", "(">>, <<"\t">> \o SubSeq(line, 8, Len(line)), <<")">>>>
                             \o SubSeq(old, s + 1, Len(old))
        IN  \E e \in 1..Len(new) :
                /\ EntryInBlock(new, s, e)
                /\ WithoutLine(new, e) = promoted

(***************************************************************************)
(* C10.                                                                    *)
(***************************************************************************)
\* C10 (as claimed): at every point of a run where no write is under way,
\* every file on disk holds the text it held when the run started or that
\* text fully transformed.
C10_OriginalOrTransformed ==
    pc # "write" =>
        \A k \in 1..Len(disk) :
            \/ disk[k] = disk_at_start[k]
            \/ disk[k] = Transform(disk_at_start[k])

=============================================================================
